---- MODULE Spec2Model ----
(***************************************************************************)
(* The automotive dashboard (streamlit_app.py): one page load is one run   *)
(* of the script from top to bottom.  The script reads the date filter,    *)
(* opens a connection, sends seven SQL queries in a fixed order, renders   *)
(* a chart after each, closes the connection and reports success.  Any     *)
(* exception stops the script where it is raised.                          *)
(*                                                                         *)
(* The database is the script's environment.  Its tables are sequences of  *)
(* rows (the physical order of the rows decides how ORDER BY places rows   *)
(* with equal sort keys); the joins of the queries are taken under the     *)
(* foreign keys of the schema, so a sales row carries the category of its  *)
(* car model and the name of its dealership, a review row the name of its  *)
(* manufacturer, a pricing row the category of its model.                  *)
(***************************************************************************)
EXTENDS Integers, Sequences, FiniteSets, TLC

VARIABLES
    db,          \* the database contents (the script only reads them)
    pc,          \* position of the running script
    start_date,  \* sidebar filter, first date
    end_date,    \* sidebar filter, second date
    conn,        \* "none", "open" or "closed": the connection of this load
    leaked,      \* a finished load left its connection open
    sent,        \* the queries handed to the database in this load, in order
    df,          \* df[k]: the rows returned for query k in this load
    pie,         \* the percentage labels drawn on the pie chart, in tenths
    events,      \* the steps this load has completed, in order
    error,       \* the exception that stopped this load, or NoError
    success,     \* st.success has been shown in this load
    prev         \* texts and results of the preceding complete load

vars == <<db, pc, start_date, end_date, conn, leaked, sent, df, pie, events,
          error, success, prev>>

----------------------------------------------------------------------------
(* Bounds of the model *)

\* dates are the days 0..MaxDate
MaxDate == 2
\* days in a month: day d lies in month d \div MonthLen
MonthLen == 2
\* rows of the sales table when the dates of the sales are varied
MaxSales == 1
\* sales of one dealership in the top-5 tables
MaxCount == 2
\* groups (manufacturers, car models, dealerships) in the top-5 tables
MaxGroups == 6
\* largest top speed in the performance table
MaxSpeed == 2
\* rows of the car_model table when the pie chart is explored
MaxModels == 4

\* LIMIT 5 of query1, query4 and query5
LIMIT == 5
\* the script sends query1 .. query7
NumQueries == 7

Dates == 0..MaxDate
NoDate == MaxDate + 1
Categories == {"SUV", "Sedan", "Truck"}
SalesCategories == {"SUV", "Sedan"}
Dealerships == {1, 2}
QueryIds == 1..NumQueries

----------------------------------------------------------------------------
(* Helpers on sequences: what GROUP BY, ORDER BY and LIMIT do *)

Min2(a, b) == IF a <= b THEN a ELSE b

RECURSIVE Sum(_)
Sum(s) == IF s = <<>> THEN 0 ELSE s[1] + Sum(Tail(s))

\* the distinct values of s, in the order of their first appearance
RECURSIVE Distinct(_)
Distinct(s) ==
    IF s = <<>> THEN <<>>
    ELSE LET r == Distinct(SubSeq(s, 1, Len(s) - 1))
             x == s[Len(s)]
         IN  IF \E i \in DOMAIN r : r[i] = x THEN r ELSE Append(r, x)

\* ORDER BY: before[i, j] says that row i of s sorts strictly before row j;
\* rows that tie keep the order they have in s
OrderBy(s, before) ==
    LET rank(i) == 1 + Cardinality({j \in DOMAIN s :
                        \/ before[j, i]
                        \/ (~before[i, j] /\ j < i)})
    IN  [p \in 1..Len(s) |-> s[CHOOSE i \in DOMAIN s : rank(i) = p]]

\* one row too many
LimitRowsOffByOne(s, n) == SubSeq(s, 1, Min2(Len(s), n + 1))

\* LIMIT n
LimitRows(s, n) == SubSeq(s, 1, Min2(Len(s), n))

\* the sequences over S of length at most n
SeqUpTo(S, n) == UNION {[1..m -> S] : m \in 0..n}

\* collation order of the category names
Collate(c) == CASE c = "SUV" -> 1 [] c = "Sedan" -> 2 [] c = "Truck" -> 3

\* an average as the exact fraction sum / n; a >= b by cross-multiplication
AvgGreater(a, b) == a.sum * b.n > b.sum * a.n

\* DATE_TRUNC('month', d): the first day of d's month
DateTrunc(d) == d - (d % MonthLen)

\* str(date): the ISO text of a date, here its month and its day of month
IsoFormat(d) == <<d \div MonthLen, d % MonthLen>>

\* the database reading a date literal
ParseDate(t) == t[1] * MonthLen + t[2]

----------------------------------------------------------------------------
(* The SQL texts the script builds *)

query1 == <<"SELECT m.name AS manufacturer_name, AVG(r.rating) AS avg_rating FROM reviews r JOIN car_model cm ON r.model_id = cm.model_id JOIN manufacturer m ON cm.manufacturer_id = m.manufacturer_id GROUP BY m.name ORDER BY avg_rating DESC LIMIT 5;">>

\* the f-string: both dates are formatted into the text, between quotes
query2(sd, ed) ==
    << "SELECT DATE_TRUNC('month', sale_date) AS sale_month, COUNT(*) AS total_sales FROM sales WHERE sale_date BETWEEN '",
       IsoFormat(sd),
       "' AND '",
       IsoFormat(ed),
       "' GROUP BY sale_month ORDER BY sale_month;" >>

query3 == <<"SELECT category, COUNT(*) AS total_models FROM car_model GROUP BY category ORDER BY total_models DESC;">>

query4 == <<"SELECT cm.model_name, p.top_speed FROM performance p JOIN car_model cm ON p.model_id = cm.model_id ORDER BY p.top_speed DESC LIMIT 5;">>

query5 == <<"SELECT d.name AS dealership_name, COUNT(*) AS total_sales FROM sales s JOIN dealership d ON s.dealership_id = d.dealership_id GROUP BY d.name ORDER BY total_sales DESC LIMIT 5;">>

query6 == <<"SELECT cm.category, AVG(p.discount) AS avg_discount FROM pricing p JOIN car_model cm ON p.model_id = cm.model_id GROUP BY cm.category ORDER BY avg_discount DESC;">>

query7 == <<"SELECT DATE_TRUNC('month', s.sale_date) AS sale_month, cm.category, COUNT(*) AS total_sales FROM sales s JOIN car_model cm ON s.model_id = cm.model_id GROUP BY sale_month, cm.category ORDER BY sale_month, cm.category;">>

\* the date range formatted into the category-monthly-sales query as well
QueryTextDatedQuery7(k, sd, ed) ==
    CASE k = 1 -> query1
      [] k = 2 -> query2(sd, ed)
      [] k = 3 -> query3
      [] k = 4 -> query4
      [] k = 5 -> query5
      [] k = 6 -> query6
      [] k = 7 -> query7 \o <<IsoFormat(sd), IsoFormat(ed)>>

\* the text handed to pd.read_sql_query for query k; no call passes params
QueryText(k, sd, ed) ==
    CASE k = 1 -> query1
      [] k = 2 -> query2(sd, ed)
      [] k = 3 -> query3
      [] k = 4 -> query4
      [] k = 5 -> query5
      [] k = 6 -> query6
      [] k = 7 -> query7

----------------------------------------------------------------------------
(* What the database answers *)

\* query1: average rating per manufacturer, best first, five rows at most
Sql1(d) ==
    LET names == Distinct([i \in DOMAIN d.reviews |-> d.reviews[i].manufacturer])
        of(m) == SelectSeq(d.reviews, LAMBDA r : r.manufacturer = m)
        grouped == [g \in DOMAIN names |->
                      [manufacturer_name |-> names[g],
                       avg_rating |->
                          [sum |-> Sum([i \in DOMAIN of(names[g]) |-> of(names[g])[i].rating]),
                           n   |-> Len(of(names[g]))]]]
    IN  LimitRows(OrderBy(grouped,
                          [i, j \in DOMAIN grouped |->
                              AvgGreater(grouped[i].avg_rating, grouped[j].avg_rating)]),
                  LIMIT)

\* the monthly-sales query without its WHERE clause
Sql2Unfiltered(lo, hi, d) ==
    LET months == Distinct([i \in DOMAIN d.sales |-> DateTrunc(d.sales[i].sale_date)])
        grouped == [g \in DOMAIN months |->
                      [sale_month |-> months[g],
                       total_sales |->
                          Len(SelectSeq(d.sales, LAMBDA r : DateTrunc(r.sale_date) = months[g]))]]
    IN  OrderBy(grouped, [i, j \in DOMAIN grouped |->
                  grouped[i].sale_month < grouped[j].sale_month])

\* query2: sales per month among the sales dated lo..hi, months ascending
Sql2(lo, hi, d) ==
    LET sel == SelectSeq(d.sales, LAMBDA r : lo <= r.sale_date /\ r.sale_date <= hi)
        months == Distinct([i \in DOMAIN sel |-> DateTrunc(sel[i].sale_date)])
        grouped == [g \in DOMAIN months |->
                      [sale_month |-> months[g],
                       total_sales |->
                          Len(SelectSeq(sel, LAMBDA r : DateTrunc(r.sale_date) = months[g]))]]
    IN  OrderBy(grouped, [i, j \in DOMAIN grouped |->
                  grouped[i].sale_month < grouped[j].sale_month])

\* query3: models per category, largest first
Sql3(d) ==
    LET cats == Distinct([i \in DOMAIN d.car_model |-> d.car_model[i].category])
        grouped == [g \in DOMAIN cats |->
                      [category |-> cats[g],
                       total_models |->
                          Len(SelectSeq(d.car_model, LAMBDA r : r.category = cats[g]))]]
    IN  OrderBy(grouped, [i, j \in DOMAIN grouped |->
                  grouped[i].total_models > grouped[j].total_models])

\* query4: the performance rows, fastest first, five rows at most
Sql4(d) ==
    LimitRows(OrderBy(d.performance,
                      [i, j \in DOMAIN d.performance |->
                          d.performance[i].top_speed > d.performance[j].top_speed]),
              LIMIT)

\* query5: sales per dealership, most first, five rows at most
Sql5(d) ==
    LET names == Distinct([i \in DOMAIN d.sales |-> d.sales[i].dealership])
        grouped == [g \in DOMAIN names |->
                      [dealership_name |-> names[g],
                       total_sales |->
                          Len(SelectSeq(d.sales, LAMBDA r : r.dealership = names[g]))]]
    IN  LimitRows(OrderBy(grouped, [i, j \in DOMAIN grouped |->
                            grouped[i].total_sales > grouped[j].total_sales]),
                  LIMIT)

\* query6: average discount per category, largest first
Sql6(d) ==
    LET cats == Distinct([i \in DOMAIN d.pricing |-> d.pricing[i].category])
        of(c) == SelectSeq(d.pricing, LAMBDA r : r.category = c)
        grouped == [g \in DOMAIN cats |->
                      [category |-> cats[g],
                       avg_discount |->
                          [sum |-> Sum([i \in DOMAIN of(cats[g]) |-> of(cats[g])[i].discount]),
                           n   |-> Len(of(cats[g]))]]]
    IN  OrderBy(grouped, [i, j \in DOMAIN grouped |->
                  AvgGreater(grouped[i].avg_discount, grouped[j].avg_discount)])

\* query7: sales per month and category, by month and then by category
Sql7(d) ==
    LET keys == Distinct([i \in DOMAIN d.sales |->
                            <<DateTrunc(d.sales[i].sale_date), d.sales[i].category>>])
        grouped == [g \in DOMAIN keys |->
                      [sale_month |-> keys[g][1],
                       category |-> keys[g][2],
                       total_sales |->
                          Len(SelectSeq(d.sales, LAMBDA r :
                                  /\ DateTrunc(r.sale_date) = keys[g][1]
                                  /\ r.category = keys[g][2]))]]
    IN  OrderBy(grouped, [i, j \in DOMAIN grouped |->
                  \/ grouped[i].sale_month < grouped[j].sale_month
                  \/ (grouped[i].sale_month = grouped[j].sale_month
                        /\ Collate(grouped[i].category) < Collate(grouped[j].category))])

\* pd.read_sql_query(sql, conn): the database answers the text it is given;
\* the dates of the monthly-sales query are the literals in its text
ReadSqlQuery(sql, d) ==
    CASE sql[1] = query1[1] -> Sql1(d)
      [] sql[1] = query2(0, 0)[1] -> Sql2(ParseDate(sql[2]), ParseDate(sql[4]), d)
      [] sql[1] = query3[1] -> Sql3(d)
      [] sql[1] = query4[1] -> Sql4(d)
      [] sql[1] = query5[1] -> Sql5(d)
      [] sql[1] = query6[1] -> Sql6(d)
      [] sql[1] = query7[1] -> Sql7(d)

----------------------------------------------------------------------------
(* The pie chart: autopct='%1.1f%%' *)

\* num / den rounded to the nearest integer, a tie to the even one
RoundHalfEven(num, den) ==
    LET q == num \div den
        r == num % den
    IN  IF 2 * r < den THEN q
        ELSE IF 2 * r > den THEN q + 1
        ELSE IF q % 2 = 0 THEN q ELSE q + 1

\* ax3.pie(df3['total_models'], autopct='%1.1f%%'): each wedge is labelled
\* with 100 * x / sum(x) printed to one decimal; the label, in tenths
AutoPct(rows) ==
    LET total == Sum([i \in DOMAIN rows |-> rows[i].total_models])
    IN  [i \in DOMAIN rows |-> RoundHalfEven(1000 * rows[i].total_models, total)]

----------------------------------------------------------------------------
(* Database contents the specifications start from *)

SalesRows == [sale_date : Dates, category : SalesCategories, dealership : Dealerships]

\* the tables that are not varied
DefaultDb ==
    [ sales       |-> <<>>,
      reviews     |-> << [manufacturer |-> 1, rating |-> 4],
                         [manufacturer |-> 2, rating |-> 5],
                         [manufacturer |-> 1, rating |-> 5] >>,
      car_model   |-> << [category |-> "SUV"], [category |-> "Sedan"],
                         [category |-> "SUV"] >>,
      performance |-> << [model_name |-> 1, top_speed |-> 1],
                         [model_name |-> 2, top_speed |-> 2] >>,
      pricing     |-> << [category |-> "SUV", discount |-> 2],
                         [category |-> "Sedan", discount |-> 3],
                         [category |-> "SUV", discount |-> 1] >> ]

\* every sales table of at most n rows
SalesDatabases(n) == {[DefaultDb EXCEPT !.sales = t] : t \in SeqUpTo(SalesRows, n)}

RECURSIVE Flatten(_)
Flatten(ss) == IF ss = <<>> THEN <<>> ELSE ss[1] \o Flatten(Tail(ss))

\* performance tables: up to MaxGroups models, every top speed 1..MaxSpeed
PerformanceDatabases ==
    { [DefaultDb EXCEPT !.performance =
          [i \in DOMAIN v |-> [model_name |-> i, top_speed |-> v[i]]]] :
      v \in SeqUpTo(1..MaxSpeed, MaxGroups) }

\* the ratings one manufacturer has received
RatingPatterns == {<<3>>, <<4>>, <<2, 5>>}

\* review tables: up to MaxGroups manufacturers, each with one of the patterns
ReviewDatabases ==
    { [DefaultDb EXCEPT !.reviews =
          Flatten([g \in DOMAIN pat |->
                     [j \in DOMAIN pat[g] |-> [manufacturer |-> g, rating |-> pat[g][j]]]])] :
      pat \in SeqUpTo(RatingPatterns, MaxGroups) }

\* sales tables: up to MaxGroups dealerships, each with 1..MaxCount sales
DealershipDatabases ==
    { [DefaultDb EXCEPT !.sales =
          Flatten([g \in DOMAIN c |->
                     [j \in 1..c[g] |-> [sale_date |-> 0, category |-> "SUV", dealership |-> g]]])] :
      c \in SeqUpTo(1..MaxCount, MaxGroups) }

\* car_model tables: up to MaxModels models over the three categories
CarModelDatabases ==
    { [DefaultDb EXCEPT !.car_model = t] : t \in SeqUpTo([category : Categories], MaxModels) }

----------------------------------------------------------------------------
(* The script, statement by statement *)

NoError == <<"none", 0>>
NoRows == [k \in QueryIds |-> <<>>]
NoPrev == [sent |-> <<>>, df |-> NoRows]

At(step) == pc[1] = step

\* the state in which a run of the script starts
Fresh ==
    /\ pc = <<"sidebar", 0>>
    /\ start_date = NoDate
    /\ end_date = NoDate
    /\ conn = "none"
    /\ sent = <<>>
    /\ df = NoRows
    /\ pie = <<>>
    /\ events = <<>>
    /\ error = NoError
    /\ success = FALSE

\* an uncaught exception: the script stops at the statement that raised it
Raise(what, k) ==
    /\ error' = <<what, k>>
    /\ pc' = <<"failed", 0>>

\* start_date, end_date = st.date_input(...): the widget hands over two dates;
\* the script compares them with nothing
date_input(sd, ed) ==
    /\ At("sidebar")
    /\ start_date' = sd
    /\ end_date' = ed
    /\ events' = Append(events, <<"filter", 0>>)
    /\ pc' = <<"connect", 0>>
    /\ UNCHANGED <<db, conn, leaked, sent, df, pie, error, success, prev>>

\* while the user has picked only the first date of the range the widget
\* returns one date, and unpacking it into two names raises ValueError
date_input_unpack_fails ==
    /\ At("sidebar")
    /\ Raise("ValueError", 0)
    /\ UNCHANGED <<db, start_date, end_date, conn, leaked, sent, df, pie,
                   events, success, prev>>

\* conn = get_connection(); cursor = conn.cursor()
get_connection ==
    /\ At("connect")
    /\ conn' = "open"
    /\ events' = Append(events, <<"connect", 0>>)
    /\ pc' = <<"query", 1>>
    /\ UNCHANGED <<db, start_date, end_date, leaked, sent, df, pie, error,
                   success, prev>>

\* a handler that swallows the failure and lets the script go on
get_connection_fails_swallowed ==
    /\ At("connect")
    /\ pc' = <<"query", 1>>
    /\ UNCHANGED <<db, start_date, end_date, conn, leaked, sent, df, pie,
                   events, error, success, prev>>

\* psycopg2.connect raises (bad credentials, unreachable host): no connection
get_connection_fails ==
    /\ At("connect")
    /\ Raise("get_connection", 0)
    /\ UNCHANGED <<db, start_date, end_date, conn, leaked, sent, df, pie,
                   events, success, prev>>

\* df_k = pd.read_sql_query(query_k, conn)
read_sql_query(k) ==
    /\ pc = <<"query", k>>
    /\ LET sql == QueryText(k, start_date, end_date)
       IN  /\ sent' = Append(sent, sql)
           /\ df' = [df EXCEPT ![k] = ReadSqlQuery(sql, db)]
    /\ events' = Append(events, <<"query", k>>)
    /\ pc' = <<"render", k>>
    /\ UNCHANGED <<db, start_date, end_date, conn, leaked, pie, error,
                   success, prev>>

\* a failed query sent again instead of stopping the load
read_sql_query_retries(k) ==
    /\ pc = <<"query", k>>
    /\ sent' = Append(sent, QueryText(k, start_date, end_date))
    /\ UNCHANGED <<db, pc, start_date, end_date, conn, leaked, df, pie,
                   events, error, success, prev>>

\* the database rejects the query or the call times out: the exception
\* leaves the script
read_sql_query_fails(k) ==
    /\ pc = <<"query", k>>
    /\ sent' = Append(sent, QueryText(k, start_date, end_date))
    /\ Raise("read_sql_query", k)
    /\ UNCHANGED <<db, start_date, end_date, conn, leaked, df, pie, events,
                   success, prev>>

\* the last query left out
AfterChartOffByOne(k) ==
    IF k < NumQueries - 1 THEN <<"query", k + 1>> ELSE <<"close", 0>>

\* the statement after chart k
AfterChart(k) == IF k < NumQueries THEN <<"query", k + 1>> ELSE <<"close", 0>>

\* the chart of query k is drawn from df_k as returned; chart 3 is the pie
render(k) ==
    /\ pc = <<"render", k>>
    /\ pie' = IF k = 3 THEN AutoPct(df[3]) ELSE pie
    /\ events' = Append(events, <<"render", k>>)
    /\ pc' = AfterChart(k)
    /\ UNCHANGED <<db, start_date, end_date, conn, leaked, sent, df, error,
                   success, prev>>

\* drawing chart k raises
render_fails(k) ==
    /\ pc = <<"render", k>>
    /\ Raise("render", k)
    /\ UNCHANGED <<db, start_date, end_date, conn, leaked, sent, df, pie,
                   events, success, prev>>

\* cursor.close(); conn.close()
close ==
    /\ At("close")
    /\ conn' = "closed"
    /\ events' = Append(events, <<"close", 0>>)
    /\ pc' = <<"success", 0>>
    /\ UNCHANGED <<db, start_date, end_date, leaked, sent, df, pie, error,
                   success, prev>>

\* st.success("Dashboard loaded successfully!")
st_success ==
    /\ At("success")
    /\ success' = TRUE
    /\ events' = Append(events, <<"success", 0>>)
    /\ pc' = <<"done", 0>>
    /\ UNCHANGED <<db, start_date, end_date, conn, leaked, sent, df, pie,
                   error, prev>>

\* the same, as the state a rerun leaves
Restart ==
    /\ pc' = <<"sidebar", 0>>
    /\ start_date' = NoDate
    /\ end_date' = NoDate
    /\ conn' = "none"
    /\ sent' = <<>>
    /\ df' = NoRows
    /\ pie' = <<>>
    /\ events' = <<>>
    /\ error' = NoError
    /\ success' = FALSE

Finished == At("done") \/ At("failed")

\* the next page load: the script runs again from the top; nothing of the
\* finished run is carried over, and nothing closes what it left open
rerun ==
    /\ Finished
    /\ leaked' = (leaked \/ conn = "open")
    /\ Restart
    /\ UNCHANGED <<db, prev>>

\* the next page load after a complete one, remembering what that one sent
\* and received
rerun_after_complete ==
    /\ At("done")
    /\ prev = NoPrev
    /\ prev' = [sent |-> sent, df |-> df]
    /\ leaked' = (leaked \/ conn = "open")
    /\ Restart
    /\ UNCHANGED db

----------------------------------------------------------------------------
(* Specifications *)

InitWith(databases) ==
    /\ db \in databases
    /\ leaked = FALSE
    /\ prev = NoPrev
    /\ Fresh

\* the script about to run, over any sales table of at most MaxSales rows
Init == InitWith(SalesDatabases(MaxSales))

\* every way a page load can go, load after load
Next ==
    \/ \E sd, ed \in Dates : date_input(sd, ed)
    \/ date_input_unpack_fails
    \/ get_connection
    \/ get_connection_fails
    \/ \E k \in QueryIds : read_sql_query(k)
    \/ \E k \in QueryIds : read_sql_query_fails(k)
    \/ \E k \in QueryIds : render(k)
    \/ \E k \in QueryIds : render_fails(k)
    \/ close
    \/ st_success
    \/ rerun

Spec == Init /\ [][Next]_vars

\* the statements of a load in which nothing raises
Step ==
    \/ get_connection
    \/ \E k \in QueryIds : read_sql_query(k)
    \/ \E k \in QueryIds : render(k)
    \/ close
    \/ st_success

\* two complete loads over the same database, each with any date range
NextQuery ==
    \/ \E sd, ed \in Dates : date_input(sd, ed)
    \/ Step
    \/ rerun_after_complete

SpecQuery == Init /\ [][NextQuery]_vars

\* one complete load over the tables the top-5 queries and the pie read
InitChart ==
    InitWith(PerformanceDatabases \cup ReviewDatabases \cup DealershipDatabases
               \cup CarModelDatabases)

NextChart ==
    \/ date_input(0, MaxDate)
    \/ Step

SpecChart == InitChart /\ [][NextChart]_vars

----------------------------------------------------------------------------
(* Properties *)

\* query k has been answered in this load
Executed(k) == \E i \in DOMAIN events : events[i] = <<"query", k>>

\* chart k has been drawn in this load
Rendered(k) == \E i \in DOMAIN events : events[i] = <<"render", k>>

IsPrefix(s, t) == Len(s) <= Len(t) /\ \A i \in DOMAIN s : s[i] = t[i]

\* C1: a load that has ended, normally or by an exception in a query or a
\* chart, holds no open connection, and no earlier load has left one open.
C1_ConnectionReleased ==
    /\ Finished => conn # "open"
    /\ ~leaked

\* C2: once the filter holds a reversed range (start after end), no query is
\* sent, and the load ends with a ValidationError.
C2_ReversedRangeRejected ==
    (start_date # NoDate /\ start_date > end_date) =>
        /\ sent = <<>>
        /\ (Finished /\ conn # "none") => error[1] = "ValidationError"

\* C3: the text of the monthly-sales query is the same in two loads, whatever
\* their date ranges are.
C3_SameQueryText ==
    (Len(prev.sent) >= 2 /\ Len(sent) >= 2) => sent[2] = prev.sent[2]

\* C4: when the script is past the connect statement and holds no connection
\* (opening it failed), the load has stopped with the error of get_connection,
\* has sent no query, holds no result and has not shown the success message.
C4_ConnectionFailure ==
    (conn = "none" /\ pc[1] \notin {"sidebar", "connect"} /\ error[1] # "ValueError") =>
        /\ At("failed")
        /\ error = <<"get_connection", 0>>
        /\ sent = <<>>
        /\ df = NoRows
        /\ ~success

C4_Witness ==
    /\ At("failed")
    /\ error = <<"get_connection", 0>>
    /\ start_date # NoDate

\* C5 as claimed: with start <= end, every sale_month the monthly-sales query
\* returns lies within [start, end].
C5_MonthsWithinRange ==
    (Executed(2) /\ start_date <= end_date) =>
        \A i \in DOMAIN df[2] :
            start_date <= df[2][i].sale_month /\ df[2][i].sale_month <= end_date

\* C5 amended: with start <= end, every sale_month returned is the first day
\* of the month of a sale dated within [start, end]; so it lies between the
\* first day of start's month and end.
C5_MonthsOfSalesWithinRange ==
    (Executed(2) /\ start_date <= end_date) =>
        \A i \in DOMAIN df[2] :
            /\ \E j \in DOMAIN db.sales :
                  /\ start_date <= db.sales[j].sale_date
                  /\ db.sales[j].sale_date <= end_date
                  /\ df[2][i].sale_month
                        = db.sales[j].sale_date - (db.sales[j].sale_date % MonthLen)
            /\ start_date - (start_date % MonthLen) <= df[2][i].sale_month
            /\ df[2][i].sale_month <= end_date

\* a month is returned whose first day lies before start
C5_Witness ==
    /\ Executed(2)
    /\ start_date <= end_date
    /\ \E i \in DOMAIN df[2] : df[2][i].sale_month < start_date

\* C6: of two loads over the same database, the second sends for every query
\* but the monthly-sales one the text the first sent, and receives the rows
\* the first received.
C6_DateRangeOnlyMonthlySales ==
    \A k \in QueryIds \ {2} :
        /\ (k <= Len(sent) /\ k <= Len(prev.sent)) => sent[k] = prev.sent[k]
        /\ (Executed(k) /\ k <= Len(prev.sent)) => df[k] = prev.df[k]

\* the second load, under another date range, has run all seven queries
C6_Witness ==
    /\ Len(prev.sent) = NumQueries
    /\ Executed(NumQueries)
    /\ sent[2] # prev.sent[2]
    /\ df[2] # prev.df[2]
    /\ df[NumQueries] # <<>>

\* C7: the labels of a pie chart drawn from a non-empty result sum to 100.0
\* (1000 tenths).
C7_PieSumsTo100 ==
    (Rendered(3) /\ df[3] # <<>>) => Sum(pie) = 1000

\* the order of the steps as the script has them
ScriptOrder ==
    <<<<"filter", 0>>, <<"connect", 0>>>>
      \o [i \in 1..(2 * NumQueries) |->
            IF i % 2 = 1 THEN <<"query", (i + 1) \div 2>> ELSE <<"render", i \div 2>>]
      \o <<<<"close", 0>>, <<"success", 0>>>>

\* the order with the connection acquired before the filter is read
ClaimedOrder ==
    <<<<"connect", 0>>, <<"filter", 0>>>> \o SubSeq(ScriptOrder, 3, Len(ScriptOrder))

C9_QueryFailureAborts ==
    /\ \A k \in QueryIds :
          (k <= Len(sent) /\ ~Executed(k)) =>
              /\ At("failed")
              /\ error = <<"read_sql_query", k>>
              /\ Len(sent) = k
              /\ ~success
    /\ Len(sent) <= NumQueries
    /\ \A i \in DOMAIN sent : sent[i] = QueryText(i, start_date, end_date)

\* a query in the middle of the order has failed
C9_Witness ==
    /\ At("failed")
    /\ error = <<"read_sql_query", 3>>
    /\ Len(sent) = 3

\* the values v are in non-increasing order
NonIncreasing(v) == \A i \in 1..(Len(v) - 1) : v[i] >= v[i + 1]

\* C10, top speed: the result holds min(5, rows of the table) distinct rows of
\* the performance table, fastest first, and no row left out is faster than a
\* row of the result.
C10_TopSpeed ==
    Executed(4) =>
        LET r == df[4]
            t == db.performance
        IN  /\ Len(r) <= LIMIT
            /\ Len(r) = Min2(Len(t), LIMIT)
            /\ NonIncreasing([i \in DOMAIN r |-> r[i].top_speed])
            /\ \A i \in DOMAIN r : \E j \in DOMAIN t : t[j] = r[i]
            /\ \A i, j \in DOMAIN r : r[i] = r[j] => i = j
            /\ \A j \in DOMAIN t :
                  (\A i \in DOMAIN r : r[i] # t[j]) =>
                      \A i \in DOMAIN r : t[j].top_speed <= r[i].top_speed

\* C10, dealerships: the result holds min(5, dealerships with sales) distinct
\* dealerships, each with the number of its sales, most sales first, and no
\* dealership left out has more sales than one of the result.
C10_Dealerships ==
    Executed(5) =>
        LET r == df[5]
            names == {db.sales[j].dealership : j \in DOMAIN db.sales}
            cnt(g) == Cardinality({j \in DOMAIN db.sales : db.sales[j].dealership = g})
        IN  /\ Len(r) <= LIMIT
            /\ Len(r) = Min2(Cardinality(names), LIMIT)
            /\ NonIncreasing([i \in DOMAIN r |-> r[i].total_sales])
            /\ \A i \in DOMAIN r :
                  /\ r[i].dealership_name \in names
                  /\ r[i].total_sales = cnt(r[i].dealership_name)
            /\ \A i, j \in DOMAIN r : r[i].dealership_name = r[j].dealership_name => i = j
            /\ \A g \in names :
                  (\A i \in DOMAIN r : r[i].dealership_name # g) =>
                      \A i \in DOMAIN r : cnt(g) <= r[i].total_sales

\* C10, manufacturers: the result holds min(5, manufacturers with reviews)
\* distinct manufacturers, each with the average of its ratings, best first,
\* and no manufacturer left out has a better average than one of the result.
C10_Manufacturers ==
    Executed(1) =>
        LET r == df[1]
            t == db.reviews
            names == {t[j].manufacturer : j \in DOMAIN t}
            idx(g) == {j \in DOMAIN t : t[j].manufacturer = g}
            total(g) == Sum([j \in DOMAIN t |->
                               IF t[j].manufacturer = g THEN t[j].rating ELSE 0])
        IN  /\ Len(r) <= LIMIT
            /\ Len(r) = Min2(Cardinality(names), LIMIT)
            /\ \A i \in 1..(Len(r) - 1) :
                  r[i].avg_rating.sum * r[i + 1].avg_rating.n
                      >= r[i + 1].avg_rating.sum * r[i].avg_rating.n
            /\ \A i \in DOMAIN r :
                  /\ r[i].manufacturer_name \in names
                  /\ r[i].avg_rating.sum = total(r[i].manufacturer_name)
                  /\ r[i].avg_rating.n = Cardinality(idx(r[i].manufacturer_name))
            /\ \A i, j \in DOMAIN r :
                  r[i].manufacturer_name = r[j].manufacturer_name => i = j
            /\ \A g \in names :
                  (\A i \in DOMAIN r : r[i].manufacturer_name # g) =>
                      \A i \in DOMAIN r :
                          total(g) * r[i].avg_rating.n
                              <= r[i].avg_rating.sum * Cardinality(idx(g))

\* C10: each of the three top-5 queries returns the five best rows at most,
\* best first, as the rows of its result.
C10_Top5 == C10_TopSpeed /\ C10_Dealerships /\ C10_Manufacturers

\* a performance table of more than five rows and of different speeds: the
\* row left out is as fast as the last one of the result
C10_Witness ==
    /\ Rendered(4)
    /\ Len(db.performance) > LIMIT
    /\ Len(df[4]) = LIMIT
    /\ df[4][1].top_speed > df[4][LIMIT].top_speed
    /\ \E j \in DOMAIN db.performance :
          /\ \A i \in DOMAIN df[4] : df[4][i] # db.performance[j]
          /\ db.performance[j].top_speed = df[4][LIMIT].top_speed

====
